---- MODULE Spec2Model ----
(***************************************************************************)
(* Model of library/oc_patch.py: one Ansible module invocation fetches an  *)
(* OpenShift object (GET), decides whether a JSON-Patch operation has to   *)
(* be sent (PATCH) and classifies the server's answer into a result that   *)
(* is handed to exit_json / fail_json.                                     *)
(*                                                                         *)
(* Python strings are TLA+ strings and are taken apart character by        *)
(* character, so split, lstrip, rstrip, lower and the substring tests are  *)
(* computed the way Python computes them.  exit_json and fail_json emit    *)
(* their result and then raise SystemExit (a BaseException that is not an  *)
(* Exception); requests.Response is falsy for a status in 400..599.        *)
(***************************************************************************)
EXTENDS Integers, Sequences, FiniteSets, TLC

\* Number of consecutive invocations against the same server object.
MaxRuns == 2

-----------------------------------------------------------------------------
(* Python string primitives *)

Char(s, i) == SubSeq(s, i, i)

InChars(c, chars) == \E i \in 1..Len(chars) : Char(chars, i) = c

RECURSIVE lstrip(_, _)
\* str.lstrip(chars): drops every leading character that occurs in chars.
lstrip(s, chars) ==
    IF Len(s) > 0 /\ InChars(Char(s, 1), chars)
    THEN lstrip(SubSeq(s, 2, Len(s)), chars)
    ELSE s

RECURSIVE rstrip(_, _)
\* str.rstrip(chars): drops every trailing character that occurs in chars.
rstrip(s, chars) ==
    IF Len(s) > 0 /\ InChars(Char(s, Len(s)), chars)
    THEN rstrip(SubSeq(s, 1, Len(s) - 1), chars)
    ELSE s

UpperAlphabet == "ABCDEFGHIJKLMNOPQRSTUVWXYZ"
LowerAlphabet == "abcdefghijklmnopqrstuvwxyz"
Digits == "0123456789"

lowerChar(c) ==
    IF InChars(c, UpperAlphabet)
    THEN Char(LowerAlphabet, CHOOSE i \in 1..Len(UpperAlphabet) : Char(UpperAlphabet, i) = c)
    ELSE c

RECURSIVE lower(_)
\* str.lower()
lower(s) ==
    IF Len(s) = 0 THEN ""
    ELSE lowerChar(Char(s, 1)) \o lower(SubSeq(s, 2, Len(s)))

RECURSIVE str(_)
\* str(int) for a non-negative port number.
str(n) ==
    IF n < 10 THEN Char(Digits, n + 1)
    ELSE str(n \div 10) \o Char(Digits, (n % 10) + 1)

\* Python "sub in s"
contains(sub, s) ==
    \E i \in 0..(Len(s) - Len(sub)) : SubSeq(s, i + 1, i + Len(sub)) = sub

RECURSIVE splitRec(_, _, _, _)
splitRec(s, sep, cur, acc) ==
    IF Len(s) = 0 THEN Append(acc, cur)
    ELSE IF Char(s, 1) = sep
         THEN splitRec(SubSeq(s, 2, Len(s)), sep, "", Append(acc, cur))
         ELSE splitRec(SubSeq(s, 2, Len(s)), sep, cur \o Char(s, 1), acc)

\* str.split(sep) for a one-character separator: "/a/b/" gives <<"", "a", "b", "">>.
split(s, sep) == splitRec(s, sep, "", <<>>)

\* re.match("^/", s)
reMatchSlash(s) == Len(s) > 0 /\ Char(s, 1) = "/"

IsWordChar(c) == InChars(c, UpperAlphabet \o LowerAlphabet \o Digits \o "_")

WordAt(text, i) == i >= 1 /\ i <= Len(text) /\ IsWordChar(Char(text, i))

\* \b between the characters i and i+1 of text (i = 0 and i = Len(text) are the ends)
Boundary(text, i) == WordAt(text, i) # WordAt(text, i + 1)

\* re.search("\\b" + word + "\\b", text) for a word without regex metacharacters
reSearchWord(word, text) ==
    \E i \in 0..(Len(text) - Len(word)) :
        /\ SubSeq(text, i + 1, i + Len(word)) = word
        /\ Boundary(text, i)
        /\ Boundary(text, i + Len(word))

-----------------------------------------------------------------------------
(* JSON values (the result of Response.json()) *)

\* A JSON string, a JSON object (sequence of <<key, value>> pairs with
\* distinct keys) and a JSON array (pairs whose first component is unused).
JStr(s) == [t |-> "str", s |-> s, m |-> <<>>]
JMap(pairs) == [t |-> "map", s |-> "", m |-> pairs]
JSeq(pairs) == [t |-> "seq", s |-> "", m |-> pairs]

HasKey(j, k) == \E i \in 1..Len(j.m) : j.m[i][1] = k
ValueOf(j, k) == j.m[CHOOSE i \in 1..Len(j.m) : j.m[i][1] = k][2]

\* operator.getitem(j, k) with a str key: the value, KeyError for a dict that
\* lacks the key, TypeError for a str or a list (indices must be integers).
getitem(j, k) ==
    IF j.t = "map"
    THEN IF HasKey(j, k) THEN [st |-> "ok", val |-> ValueOf(j, k)]
         ELSE [st |-> "KeyError", val |-> j]
    ELSE [st |-> "TypeError", val |-> j]

RECURSIVE reduceGetitem(_, _)
\* functools.reduce(operator.getitem, keys, j)
reduceGetitem(keys, j) ==
    IF Len(keys) = 0 THEN [st |-> "ok", val |-> j]
    ELSE LET r == getitem(j, Head(keys))
         IN  IF r.st = "ok" THEN reduceGetitem(Tail(keys), r.val) ELSE r

FailedKeyError == JStr("FailedKeyError")

\* The outcome of a call that can raise: exc tells whether it raised.
Returned(v) == [exc |-> FALSE, val |-> v]
RaisedException == [exc |-> TRUE, val |-> JStr("")]

getPathValueFromDict_Reraise(jsonDict, path) ==
    LET mapPath == Tail(split(path, "/"))
        r == reduceGetitem(mapPath, jsonDict)
    IN  IF r.st = "ok" THEN Returned(r.val) ELSE RaisedException

getPathValueFromDict(jsonDict, path) ==
    LET mapPath == Tail(split(path, "/"))
        r == reduceGetitem(mapPath, jsonDict)
    IN  IF r.st = "ok" THEN Returned(r.val)
        ELSE IF r.st = "KeyError" THEN Returned(FailedKeyError)
        ELSE RaisedException

-----------------------------------------------------------------------------
(* ApiEndpoint *)

ApiEndpoint(host, port, namespace, objectName, objectType, objectOperation) ==
    [host |-> lstrip(host, "https://"),
     port |-> port,
     namespace |-> namespace,
     objectName |-> objectName,
     objectType |-> objectType,
     objectOperation |-> objectOperation]

\* ApiEndpoint.__str__
ApiEndpointStr(self) ==
    "https://" \o self.host \o ":" \o str(self.port) \o "/"
        \o "api/v1/namespaces/" \o self.namespace \o "/"
        \o lower(self.objectType) \o "s/" \o self.objectName

-----------------------------------------------------------------------------
(* Responses, results and the classifier apiResponse *)

\* A requests.Response: status_code and the decoded json() body.
Response(status, body) == [called |-> TRUE, status_code |-> status, body |-> body]
\* The literal 0 that patchObject passes when it made no API call, and the
\* {} that main passes as getResult for operation get.
NoCall == [called |-> FALSE, status_code |-> 0, body |-> JMap(<<>>)]

\* bool(apiResult): 0 is falsy; Response.__bool__ is Response.ok, which is
\* False for a status in 400..599.
Truthy(apiResult) ==
    apiResult.called /\ ~(400 <= apiResult.status_code /\ apiResult.status_code < 600)

NA == JStr("N/A")
Unset == [t |-> "unset", s |-> "", m |-> <<>>]

\* One call of module.exit_json / module.fail_json with its keyword arguments
\* (changed and test are "True", "False", "N/A" or "unset" when not passed).
Result(fn, by, msg, changed, new_value, old_value, test) ==
    [fn |-> fn, by |-> by, msg |-> msg, changed |-> changed,
     new_value |-> new_value, old_value |-> old_value, test |-> test]

\* What a call did: the results it emitted and how it ended:
\* "none" (returned), "SystemExit" (exit_json / fail_json) or "Exception".
Emit(r) == [out |-> <<r>>, exc |-> "SystemExit"]
ReturnNone == [out |-> <<>>, exc |-> "none"]
RaiseException == [out |-> <<>>, exc |-> "Exception"]

RemoveNonexistant == "Unable to remove nonexistant key:"

\* json()['message'] of an error body
HasMessage(body) == body.t = "map" /\ HasKey(body, "message")
MessageOf(body) == ValueOf(body, "message").s

apiResponse2xx_MoveUnchanged(op, apiResult, getResult, path) ==
    IF op = "replace" \/ op = "add" \/ op = "remove"
    THEN LET apiResultValue == getPathValueFromDict(apiResult.body, path)
             getResultValue == getPathValueFromDict(getResult.body, path)
         IN  IF apiResultValue.exc \/ getResultValue.exc THEN RaiseException
             ELSE IF apiResultValue.val = getResultValue.val
             THEN Emit(Result("exit_json", "apiResponse",
                      "NO CHANGE: " \o op \o " successful, specified path already contained value.",
                      "False", apiResultValue.val, getResultValue.val, "N/A"))
             ELSE Emit(Result("exit_json", "apiResponse",
                      "CHANGED: " \o op \o " successful, specified path was updated with new value.",
                      "False", apiResultValue.val, getResultValue.val, "N/A"))
    ELSE IF op = "test"
    THEN Emit(Result("exit_json", "apiResponse",
             "NO CHANGE: Test successful, specified path contains value.",
             "False", NA, NA, "True"))
    ELSE IF op = "move"
    THEN Emit(Result("exit_json", "apiResponse",
             "CHANGED: " \o op \o " sucessful, specified path sucessfully moved.",
             "False", NA, NA, "N/A"))
    ELSE IF op = "get"
    THEN Emit(Result("exit_json", "apiResponse",
             "NO CHANGE: " \o op \o " sucessful.",
             "True", NA, NA, "N/A"))
    ELSE ReturnNone

apiResponse2xx_SwappedValues(op, apiResult, getResult, path) ==
    IF op = "replace" \/ op = "add" \/ op = "remove"
    THEN LET apiResultValue == getPathValueFromDict(apiResult.body, path)
             getResultValue == getPathValueFromDict(getResult.body, path)
         IN  IF apiResultValue.exc \/ getResultValue.exc THEN RaiseException
             ELSE IF apiResultValue.val = getResultValue.val
             THEN Emit(Result("exit_json", "apiResponse",
                      "NO CHANGE: " \o op \o " successful, specified path already contained value.",
                      "False", getResultValue.val, apiResultValue.val, "N/A"))
             ELSE Emit(Result("exit_json", "apiResponse",
                      "CHANGED: " \o op \o " successful, specified path was updated with new value.",
                      "False", getResultValue.val, apiResultValue.val, "N/A"))
    ELSE IF op = "test"
    THEN Emit(Result("exit_json", "apiResponse",
             "NO CHANGE: Test successful, specified path contains value.",
             "False", NA, NA, "True"))
    ELSE IF op = "move"
    THEN Emit(Result("exit_json", "apiResponse",
             "CHANGED: " \o op \o " sucessful, specified path sucessfully moved.",
             "True", NA, NA, "N/A"))
    ELSE IF op = "get"
    THEN Emit(Result("exit_json", "apiResponse",
             "NO CHANGE: " \o op \o " sucessful.",
             "True", NA, NA, "N/A"))
    ELSE ReturnNone

\* The 200..299 branch.
apiResponse2xx(op, apiResult, getResult, path) ==
    IF op = "replace" \/ op = "add" \/ op = "remove"
    THEN LET apiResultValue == getPathValueFromDict(apiResult.body, path)
             getResultValue == getPathValueFromDict(getResult.body, path)
         IN  IF apiResultValue.exc \/ getResultValue.exc THEN RaiseException
             ELSE IF apiResultValue.val = getResultValue.val
             THEN Emit(Result("exit_json", "apiResponse",
                      "NO CHANGE: " \o op \o " successful, specified path already contained value.",
                      "False", apiResultValue.val, getResultValue.val, "N/A"))
             ELSE Emit(Result("exit_json", "apiResponse",
                      "CHANGED: " \o op \o " successful, specified path was updated with new value.",
                      "False", apiResultValue.val, getResultValue.val, "N/A"))
    ELSE IF op = "test"
    THEN Emit(Result("exit_json", "apiResponse",
             "NO CHANGE: Test successful, specified path contains value.",
             "False", NA, NA, "True"))
    ELSE IF op = "move"
    THEN Emit(Result("exit_json", "apiResponse",
             "CHANGED: " \o op \o " sucessful, specified path sucessfully moved.",
             "True", NA, NA, "N/A"))
    ELSE IF op = "get"
    THEN Emit(Result("exit_json", "apiResponse",
             "NO CHANGE: " \o op \o " sucessful.",
             "True", NA, NA, "N/A"))
    ELSE ReturnNone

apiResponse500_RemoveChanged(op, apiResult) ==
    IF op = "remove" /\ ~HasMessage(apiResult.body) THEN RaiseException
    ELSE IF op = "remove" /\ contains(RemoveNonexistant, MessageOf(apiResult.body))
    THEN Emit(Result("exit_json", "apiResponse",
             "NO CHANGE: Key to be removed is already non-existant",
             "True", NA, NA, "N/A"))
    ELSE IF op = "move" /\ ~HasMessage(apiResult.body) THEN RaiseException
    ELSE IF op = "move" /\ contains(RemoveNonexistant, MessageOf(apiResult.body))
    THEN Emit(Result("fail_json", "apiResponse",
             "FAILED: Key to be moved does not exist in this path.",
             "False", NA, NA, "N/A"))
    ELSE IF op = "test"
    THEN Emit(Result("exit_json", "apiResponse",
             "NO CHANGE: Test unsucessful, specified path does not contain value.",
             "False", NA, NA, "False"))
    ELSE ReturnNone

apiResponse500_TestTrue(op, apiResult) ==
    IF op = "remove" /\ ~HasMessage(apiResult.body) THEN RaiseException
    ELSE IF op = "remove" /\ contains(RemoveNonexistant, MessageOf(apiResult.body))
    THEN Emit(Result("exit_json", "apiResponse",
             "NO CHANGE: Key to be removed is already non-existant",
             "False", NA, NA, "N/A"))
    ELSE IF op = "move" /\ ~HasMessage(apiResult.body) THEN RaiseException
    ELSE IF op = "move" /\ contains(RemoveNonexistant, MessageOf(apiResult.body))
    THEN Emit(Result("fail_json", "apiResponse",
             "FAILED: Key to be moved does not exist in this path.",
             "False", NA, NA, "N/A"))
    ELSE IF op = "test"
    THEN Emit(Result("exit_json", "apiResponse",
             "NO CHANGE: Test unsucessful, specified path does not contain value.",
             "False", NA, NA, "True"))
    ELSE ReturnNone

\* The status 500 branch: no else, so any other operation returns None.
\* apiResult.json()['message'] raises KeyError when the body has no message.
apiResponse500(op, apiResult) ==
    IF op = "remove" /\ ~HasMessage(apiResult.body) THEN RaiseException
    ELSE IF op = "remove" /\ contains(RemoveNonexistant, MessageOf(apiResult.body))
    THEN Emit(Result("exit_json", "apiResponse",
             "NO CHANGE: Key to be removed is already non-existant",
             "False", NA, NA, "N/A"))
    ELSE IF op = "move" /\ ~HasMessage(apiResult.body) THEN RaiseException
    ELSE IF op = "move" /\ contains(RemoveNonexistant, MessageOf(apiResult.body))
    THEN Emit(Result("fail_json", "apiResponse",
             "FAILED: Key to be moved does not exist in this path.",
             "False", NA, NA, "N/A"))
    ELSE IF op = "test"
    THEN Emit(Result("exit_json", "apiResponse",
             "NO CHANGE: Test unsucessful, specified path does not contain value.",
             "False", NA, NA, "False"))
    ELSE ReturnNone

apiResponse(op, apiResult, getResult, path) ==
    IF ~Truthy(apiResult) /\ op = "replace"
    THEN Emit(Result("fail_json", "apiResponse",
             "NO CHANGE: Path does not already exist, consider using add method",
             "False", NA, NA, "N/A"))
    ELSE IF ~Truthy(apiResult) /\ op = "add"
    THEN Emit(Result("fail_json", "apiResponse",
             "NO CHANGE: Path already exists, consider using replace method.",
             "False", NA, NA, "N/A"))
    \* 0 has no status_code: AttributeError
    ELSE IF ~apiResult.called THEN RaiseException
    ELSE IF 200 <= apiResult.status_code /\ apiResult.status_code <= 299
    THEN apiResponse2xx(op, apiResult, getResult, path)
    ELSE IF apiResult.status_code = 401
    THEN Emit(Result("fail_json", "apiResponse",
             "FAILURE: Server refused action, check your credentials.",
             "False", NA, NA, "N/A"))
    ELSE IF apiResult.status_code = 500
    THEN apiResponse500(op, apiResult)
    ELSE Emit(Result("fail_json", "apiResponse",
             "FAILED: API call returned failure code.",
             "False", NA, NA, "False"))

-----------------------------------------------------------------------------
(* The server object and the inputs of an invocation *)

DataDoc(pairs) == JMap(<< <<"data", JMap(pairs)>> >>)

\* States of the remote object: {"data": {}}, {"data": {"k": "old"}},
\* {"data": {"k": "new"}}, {"data": {"k": "FailedKeyError"}}, {"data": ["old"]}.
Docs ==
    { DataDoc(<<>>),
      DataDoc(<< <<"k", JStr("old")>> >>),
      DataDoc(<< <<"k", JStr("new")>> >>),
      DataDoc(<< <<"k", FailedKeyError>> >>),
      JMap(<< <<"data", JSeq(<< <<"", JStr("old")>> >>)>> >>) }

\* Bodies of error answers: with the absent-key message, with another
\* message, and without a message.
ErrorBodies ==
    { JMap(<< <<"message", JStr("Unable to remove nonexistant key: k")>> >>),
      JMap(<< <<"message", JStr("configmaps not found")>> >>),
      JMap(<< <<"kind", JStr("Status")>> >>) }

GetErrorBody == JMap(<< <<"message", JStr("configmaps not found")>> >>)

GetStatuses == {200, 401, 404, 500}
PatchStatuses == {200, 401, 404, 500}

Operations == {"get", "replace", "add", "remove", "move", "test", "delete", ""}
Paths == {"/data/k", "/data/k/", "/data/j", "data/k", "/data/k/x"}
Values == {"old", "new"}

Endpoints ==
    { [host |-> "https://host", port |-> 443, namespace |-> "ns",
       type |-> "ConfigMap", name |-> "cm1"],
      [host |-> "myocp.local", port |-> 8443, namespace |-> "demo",
       type |-> "resourcequota", name |-> "rq"] }

\* module.params: host, port, namespace and object{name, type, operation,
\* path, value, from}.
Params ==
    { [host |-> e.host, port |-> e.port, namespace |-> e.namespace,
       name |-> e.name, type |-> e.type,
       operation |-> o, path |-> p, value |-> v, from |-> "/data/j"] :
      e \in Endpoints, o \in Operations, p \in Paths, v \in Values }

NoParams ==
    [host |-> "", port |-> 0, namespace |-> "", name |-> "", type |-> "",
     operation |-> "", path |-> "", value |-> "", from |-> ""]

RECURSIVE SetPath(_, _, _)
\* The object after a JSON-Patch replace of the value at keys by v.
SetPath(j, keys, v) ==
    IF Len(keys) = 0 THEN v
    ELSE JMap([i \in 1..Len(j.m) |->
                 IF j.m[i][1] = Head(keys)
                 THEN <<j.m[i][1], SetPath(j.m[i][2], Tail(keys), v)>>
                 ELSE j.m[i]])

-----------------------------------------------------------------------------
(* State *)

VARIABLES
    run,            \* number of invocations started
    pc,             \* position of the current invocation in main / patchObject
    params,         \* module.params of the current invocation
    doc,            \* the object as the server holds it
    getResponse,    \* main's getResponse (patchObject's getResult)
    getResultValue, \* patchObject's getResultValue
    apiResult,      \* the response of request.patch()
    results,        \* the exit_json / fail_json calls of the invocation, in order
    requests,       \* the HTTP requests of the invocation, in order
    applied,        \* the PATCH was a replace and the server applied it
    prev            \* the replace the previous invocation got applied, if any

vars == <<run, pc, params, doc, getResponse, getResultValue, apiResult,
          results, requests, applied, prev>>

NotResolved == [called |-> FALSE, exc |-> FALSE, val |-> JStr("")]
NoPrev == [set |-> FALSE, path |-> "", value |-> ""]
\* The {} that getObject passes as payload.
NoPayload == <<>>

op == lower(params.operation)

\* main's except Exception handler: fail_json(msg="Module Failure", error=e)
ModuleFailure ==
    Result("fail_json", "main", "Module Failure", "unset", Unset, Unset, "unset")

url ==
    ApiEndpointStr(ApiEndpoint(params.host, params.port, params.namespace,
                               params.name, params.type, params.operation))

Init ==
    /\ run = 0
    /\ pc = "idle"
    /\ params = NoParams
    /\ doc \in Docs
    /\ getResponse = NoCall
    /\ getResultValue = NotResolved
    /\ apiResult = NoCall
    /\ results = <<>>
    /\ requests = <<>>
    /\ applied = FALSE
    /\ prev = NoPrev

\* The module is invoked with parameters p.
Start(p) ==
    /\ pc \in {"idle", "done"}
    /\ run < MaxRuns
    /\ run' = run + 1
    /\ pc' = "main"
    /\ params' = p
    /\ getResponse' = NoCall
    /\ getResultValue' = NotResolved
    /\ apiResult' = NoCall
    /\ results' = <<>>
    /\ requests' = <<>>
    /\ applied' = FALSE
    /\ prev' = IF applied
               THEN [set |-> TRUE, path |-> params.path, value |-> params.value]
               ELSE NoPrev
    /\ UNCHANGED doc

\* main: the absolute-path check.
MainCheckPath ==
    /\ pc = "main"
    /\ IF op # "get" /\ ~reMatchSlash(params.path)
       THEN /\ results' = Append(results,
                   Result("fail_json", "main",
                          "NO CHANGE: Declare an absolute path - e.g. /foo/baz.",
                          "False", Unset, Unset, "unset"))
            /\ pc' = "done"
       ELSE /\ pc' = "getObject"
            /\ UNCHANGED results
    /\ UNCHANGED <<run, params, doc, getResponse, getResultValue, apiResult,
                   requests, applied, prev>>

\* What the server answers to a GET: the object or, with an error status,
\* an error body.  The module reads the body whatever the status is, so the
\* object is paired with every status.
GetAnswers ==
    {Response(st, doc) : st \in GetStatuses}
        \cup {Response(st, GetErrorBody) : st \in GetStatuses \ {200}}

\* main: getObject(module) inside try / except Exception.
GetObject ==
    /\ pc = "getObject"
    /\ requests' = Append(requests, [method |-> "GET", url |-> url, payload |-> NoPayload])
    /\ \/ \E r \in GetAnswers :
             /\ getResponse' = r
             /\ pc' = "dispatch"
             /\ UNCHANGED results
       \/ \* request.get() raised
          /\ results' = Append(results, ModuleFailure)
          /\ pc' = "done"
          /\ UNCHANGED getResponse
    /\ UNCHANGED <<run, params, doc, getResultValue, apiResult, applied, prev>>

\* A call made inside main's try / except Exception: an Exception is
\* answered with fail_json("Module Failure"), SystemExit passes through.
InMainTry(r) ==
    IF r.exc = "Exception" THEN r.out \o <<ModuleFailure>> ELSE r.out

MainDispatch_GetPatches ==
    /\ pc = "dispatch"
    /\ IF op = "get"
       THEN /\ pc' = "patchObject"
            /\ UNCHANGED results
       ELSE IF reSearchWord(op, "replace|add|remove|move|test")
       THEN /\ pc' = "patchObject"
            /\ UNCHANGED results
       ELSE /\ results' = Append(results,
                   Result("fail_json", "main",
                          "Please select an operation from: replace, add, remove, move, test, get",
                          "False", Unset, Unset, "unset"))
            /\ pc' = "done"
    /\ UNCHANGED <<run, params, doc, getResponse, getResultValue, apiResult,
                   requests, applied, prev>>

\* main: choice of the operation.
MainDispatch ==
    /\ pc = "dispatch"
    /\ IF op = "get"
       THEN /\ results' = results \o InMainTry(apiResponse(op, getResponse, NoCall, params.path))
            /\ pc' = "done"
       ELSE IF reSearchWord(op, "replace|add|remove|move|test")
       THEN /\ pc' = "patchObject"
            /\ UNCHANGED results
       ELSE /\ results' = Append(results,
                   Result("fail_json", "main",
                          "Please select an operation from: replace, add, remove, move, test, get",
                          "False", Unset, Unset, "unset"))
            /\ pc' = "done"
    /\ UNCHANGED <<run, params, doc, getResponse, getResultValue, apiResult,
                   requests, applied, prev>>

PatchObjectGate_ChecksStatus ==
    /\ pc = "patchObject"
    /\ LET v == getPathValueFromDict(getResponse.body, params.path)
           shortCircuit == IF v.val = FailedKeyError THEN op = "replace" ELSE op = "add"
           r == apiResponse(op, NoCall, getResponse, params.path)
       IN  /\ getResultValue' = [called |-> TRUE, exc |-> v.exc, val |-> v.val]
           /\ IF v.exc \/ getResponse.status_code < 200 \/ getResponse.status_code > 299
              THEN /\ results' = Append(results, ModuleFailure)
                   /\ pc' = "done"
              ELSE IF shortCircuit
              THEN /\ results' = results \o InMainTry(r)
                   /\ pc' = IF r.exc = "none" THEN "patch" ELSE "done"
              ELSE /\ pc' = "patch"
                   /\ UNCHANGED results
    /\ UNCHANGED <<run, params, doc, getResponse, apiResult, requests, applied, prev>>

\* patchObject up to the decision whether an API call is needed.
PatchObjectGate ==
    /\ pc = "patchObject"
    /\ LET v == getPathValueFromDict(getResponse.body, params.path)
           shortCircuit == IF v.val = FailedKeyError THEN op = "replace" ELSE op = "add"
           r == apiResponse(op, NoCall, getResponse, params.path)
       IN  /\ getResultValue' = [called |-> TRUE, exc |-> v.exc, val |-> v.val]
           /\ IF v.exc
              THEN /\ results' = Append(results, ModuleFailure)
                   /\ pc' = "done"
              ELSE IF shortCircuit
              THEN /\ results' = results \o InMainTry(r)
                   /\ pc' = IF r.exc = "none" THEN "patch" ELSE "done"
              ELSE /\ pc' = "patch"
                   /\ UNCHANGED results
    /\ UNCHANGED <<run, params, doc, getResponse, apiResult, requests, applied, prev>>

Payload_ValueUnlessMove ==
    LET base == [op |-> op, path |-> rstrip(params.path, "/"),
                 keys |-> {"op", "path"}, value |-> "", from |-> ""]
    IN  IF op # "move"
        THEN << [base EXCEPT !.keys = @ \cup {"value"}, !.value = params.value] >>
        ELSE IF op = "move"
        THEN << [base EXCEPT !.keys = @ \cup {"from"}, !.from = params.from] >>
        ELSE << base >>

\* The payload patchObject builds: the list [{op, path, value?, from?}];
\* keys names the fields the element has.
Payload ==
    LET base == [op |-> op, path |-> rstrip(params.path, "/"),
                 keys |-> {"op", "path"}, value |-> "", from |-> ""]
    IN  IF ~contains("move", op)
        THEN << [base EXCEPT !.keys = @ \cup {"value"}, !.value = params.value] >>
        ELSE IF op = "move"
        THEN << [base EXCEPT !.keys = @ \cup {"from"}, !.from = params.from] >>
        ELSE << base >>

\* What the server answers to a PATCH: some state of the object with 200, or
\* an error body with an error status.
PatchAnswers ==
    {Response(200, d) : d \in Docs}
        \cup {Response(st, b) : st \in PatchStatuses \ {200}, b \in ErrorBodies}

\* A call made inside patchObject's try / except BaseException: whatever
\* is raised, SystemExit included, is replaced by an Exception.
InPatchObjectTry(r) ==
    IF r.exc = "none" THEN r ELSE [out |-> r.out, exc |-> "Exception"]

\* patchObject from the payload to the end: request.patch() and apiResponse
\* inside try / except BaseException, itself inside main's try / except.
PatchObjectCall ==
    /\ pc = "patch"
    /\ requests' = Append(requests, [method |-> "PATCH", url |-> url, payload |-> Payload])
    /\ \/ \E a \in PatchAnswers :
             /\ apiResult' = a
             /\ results' = results \o
                   InMainTry(InPatchObjectTry(apiResponse(op, a, getResponse, params.path)))
             /\ doc' = IF a.status_code = 200 THEN a.body ELSE doc
             /\ applied' = /\ op = "replace"
                           /\ a.status_code = 200
                           /\ getResponse.body = doc
                           /\ a.body = SetPath(doc, Tail(split(Payload[1].path, "/")),
                                               JStr(params.value))
       \/ \* request.patch() raised
          /\ results' = results \o InMainTry(InPatchObjectTry(RaiseException))
          /\ UNCHANGED <<apiResult, doc, applied>>
    /\ pc' = "done"
    /\ UNCHANGED <<run, params, getResponse, getResultValue, prev>>

Next ==
    \/ \E p \in Params : Start(p)
    \/ MainCheckPath
    \/ GetObject
    \/ MainDispatch
    \/ PatchObjectGate
    \/ PatchObjectCall

Spec == Init /\ [][Next]_vars

-----------------------------------------------------------------------------
(* Vocabulary of the properties *)

\* The segments of a pointer as the resolver receives them.
Pointer(path) == Tail(split(path, "/"))

RECURSIVE Walk(_, _)
\* Three-valued resolution of a pointer: found with the sub-value, absent
\* (a mapping lacks the segment) or malformed (a segment applied to a value
\* that is not a mapping).
Walk(j, segs) ==
    IF segs = <<>> THEN [st |-> "found", val |-> j]
    ELSE IF j.t # "map" THEN [st |-> "malformed", val |-> j]
    ELSE IF \A i \in 1..Len(j.m) : j.m[i][1] # segs[1] THEN [st |-> "absent", val |-> j]
    ELSE Walk(ValueOf(j, segs[1]), SubSeq(segs, 2, Len(segs)))

\* The results emitted by the classifier, in order.
ClassifierResults == SelectSeq(results, LAMBDA r : r.by = "apiResponse")

Done == pc = "done"
GetIssued == \E i \in 1..Len(requests) : requests[i].method = "GET"
PatchIssued == \E i \in 1..Len(requests) : requests[i].method = "PATCH"
Is2xx(st) == 200 <= st /\ st <= 299
StartsWith(s, prefix) == Len(s) >= Len(prefix) /\ SubSeq(s, 1, Len(prefix)) = prefix
Kinds == {"get", "replace", "add", "remove", "move", "test"}

\* The value at the path in the GET body and in the PATCH response body.
PriorValue == Walk(getResponse.body, Pointer(params.path))
PatchedValue == Walk(apiResult.body, Pointer(params.path))

-----------------------------------------------------------------------------
(* Properties *)

\* C1: against a server that applies the patch, a replace with the value the
\* path already holds reports changed=false, a replace with a different value
\* reports changed=true, and the same replace issued again reports
\* changed=false.
C1_ReplaceIdempotence ==
    (Done /\ applied) =>
        /\ Len(ClassifierResults) = 1
        /\ PriorValue.val = JStr(params.value) => ClassifierResults[1].changed = "False"
        /\ PriorValue.val # JStr(params.value) => ClassifierResults[1].changed = "True"
        /\ (prev.set /\ prev.path = params.path /\ prev.value = params.value)
              => ClassifierResults[1].changed = "False"

\* C2: a finished invocation has emitted exactly one result.
C2_ExactlyOneResult == Done => Len(results) = 1

\* C3: add on a present path and replace on an absent path end with one
\* failure result, changed=false, and without a PATCH.
C3_ShortCircuit ==
    (/\ Done
     /\ getResultValue.called
     /\ \/ op = "add" /\ PriorValue.st = "found"
        \/ op = "replace" /\ PriorValue.st = "absent")
    => /\ Len(results) = 1
       /\ results[1].fn = "fail_json"
       /\ results[1].changed = "False"
       /\ ~PatchIssued
       /\ ~apiResult.called

\* C4: for replace, add and remove with a 2xx PATCH response, changed is true
\* exactly when the value at the path differs between the PATCH response body
\* and the GET body, and the message says CHANGED or NO CHANGE accordingly.
C4_ChangedIffDiffers ==
    (/\ Done
     /\ op \in {"replace", "add", "remove"}
     /\ apiResult.called
     /\ Is2xx(apiResult.status_code)
     /\ PriorValue.st # "malformed"
     /\ PatchedValue.st # "malformed")
    => /\ Len(ClassifierResults) = 1
       /\ LET r == ClassifierResults[1]
              differs == \/ PriorValue.st # PatchedValue.st
                         \/ PriorValue.st = "found" /\ PriorValue.val # PatchedValue.val
          IN  /\ r.changed = (IF differs THEN "True" ELSE "False")
              /\ StartsWith(r.msg, IF differs THEN "CHANGED" ELSE "NO CHANGE")

\* The response the classifier is run on: the GET response for get, the
\* PATCH response for the other kinds.
Classified == IF op = "get" THEN getResponse ELSE apiResult

Special500 ==
    /\ Classified.status_code = 500
    /\ \/ op = "test"
       \/ /\ op \in {"remove", "move"}
          /\ HasMessage(Classified.body)
          /\ contains("Unable to remove nonexistant key", MessageOf(Classified.body))

\* C5: a response that matches no earlier row of the decision table ends in
\* the generic failure result.
C5_CatchAll ==
    (/\ Done
     /\ op \in Kinds
     /\ Classified.called
     /\ ~Is2xx(Classified.status_code)
     /\ Classified.status_code # 401
     /\ ~Special500)
    => /\ Len(ClassifierResults) = 1
       /\ ClassifierResults[1].fn = "fail_json"
       /\ ClassifierResults[1].msg = "FAILED: API call returned failure code."

\* C6: an unsupported kind, or a path without leading slash for a kind other
\* than get, ends in a failure result without any GET or PATCH.
C6_ConfigErrorBeforeNetwork ==
    (/\ Done
     /\ \/ op \notin Kinds
        \/ op # "get" /\ ~StartsWith(params.path, "/"))
    => /\ Len(results) >= 1
       /\ results[Len(results)].fn = "fail_json"
       /\ ~GetIssued
       /\ ~PatchIssued

AbsentKey500 ==
    /\ Done
    /\ apiResult.called
    /\ apiResult.status_code = 500
    /\ HasMessage(apiResult.body)
    /\ contains("Unable to remove nonexistant key", MessageOf(apiResult.body))

StripHttps(host) ==
    IF StartsWith(host, "https://") THEN SubSeq(host, 9, Len(host)) ELSE host

ExpectedUrl ==
    "https://" \o StripHttps(params.host) \o ":" \o str(params.port)
        \o "/api/v1/namespaces/" \o params.namespace \o "/"
        \o lower(params.type) \o "s/" \o params.name

\* C9: every request goes to https://h:port/api/v1/namespaces/ns/kinds/name
\* with h the host without its literal https:// prefix.
C9_Url == \A i \in 1..Len(requests) : requests[i].url = ExpectedUrl

\* C10: the resolver returns the sub-value of a present pointer, the NotFound
\* sentinel for a missing key, and raises when a segment is applied to a
\* value that is not a mapping.
C10_Resolver ==
    getResultValue.called =>
        /\ PriorValue.st = "found" =>
              ~getResultValue.exc /\ getResultValue.val = PriorValue.val
        /\ PriorValue.st = "absent" =>
              ~getResultValue.exc /\ getResultValue.val = FailedKeyError
        /\ PriorValue.st = "malformed" => getResultValue.exc

C10_Witness ==
    /\ getResultValue.called
    /\ PriorValue.st = "absent"
    /\ ~getResultValue.exc
    /\ getResultValue.val = FailedKeyError

Reported(w) == IF w.st = "found" THEN w.val ELSE JStr("FailedKeyError")

C13_GatePassThrough ==
    (/\ Done
     /\ getResultValue.called
     /\ ~getResultValue.exc
     /\ \/ op \in {"remove", "move", "test"}
        \/ op = "replace" /\ PriorValue.st = "found"
        \/ op = "add" /\ PriorValue.st = "absent")
    => PatchIssued

CountOf(method) == Cardinality({i \in 1..Len(requests) : requests[i].method = method})

\* C14: an invocation issues at most one GET and at most one PATCH, a PATCH
\* only after the GET has returned its response, and never a PATCH for get.
C14_CallOrder ==
    /\ CountOf("GET") <= 1
    /\ CountOf("PATCH") <= 1
    /\ \A i \in 1..Len(requests) :
          requests[i].method = "PATCH" =>
              /\ i = 2
              /\ requests[1].method = "GET"
              /\ getResponse.called
    /\ op = "get" => ~PatchIssued

C14_Witness ==
    /\ Done
    /\ Len(requests) = 2
    /\ requests[1].method = "GET"
    /\ requests[2].method = "PATCH"
    /\ apiResult.called

EndsWithSlash(p) == Len(p) > 0 /\ Char(p, Len(p)) = "/"
WithoutTrailingSlash(p) == SubSeq(p, 1, Len(p) - 1)

\* The path of the invocation resolved without its trailing slash.
PriorValueStripped == Walk(getResponse.body, Pointer(WithoutTrailingSlash(params.path)))

\* C15: resolving a path with a trailing slash gives the same result as
\* resolving the path without it.
C15_TrailingSlash ==
    (getResultValue.called /\ EndsWithSlash(params.path)) =>
        /\ PriorValueStripped.st = "found" =>
              ~getResultValue.exc /\ getResultValue.val = PriorValueStripped.val
        /\ PriorValueStripped.st = "absent" =>
              ~getResultValue.exc /\ getResultValue.val = FailedKeyError
        /\ PriorValueStripped.st = "malformed" => getResultValue.exc

\* The request path with its trailing slash removed.
WirePath(p) == IF EndsWithSlash(p) THEN WithoutTrailingSlash(p) ELSE p

\* C16: the PATCH payload is a one-element sequence whose element has the
\* kind as op, the path without trailing slash, a value exactly for replace,
\* add and test, a from exactly for move, and neither for remove.
C16_WirePatch ==
    \A i \in 1..Len(requests) :
        (requests[i].method = "PATCH" /\ op \in Kinds) =>
            /\ Len(requests[i].payload) = 1
            /\ LET e == requests[i].payload[1]
               IN  /\ e.op = op
                   /\ e.path = WirePath(params.path)
                   /\ ("value" \in e.keys) <=> (op \in {"replace", "add", "test"})
                   /\ "value" \in e.keys => e.value = params.value
                   /\ ("from" \in e.keys) <=> (op = "move")
                   /\ "from" \in e.keys => e.from = params.from

C16_Witness ==
    /\ PatchIssued
    /\ op = "remove"
    /\ params.path = "/data/k/"
    /\ requests[2].payload[1].path = "/data/k"
    /\ requests[2].payload[1].keys = {"op", "path"}

\* The branch the gate takes as a function of the kind, the GET body and the
\* path alone: proceed unless the resolution raises, the kind is replace and
\* the resolved value is the sentinel, or the kind is add and it is not.
GateProceeds(kind, body, path) ==
    LET w == Walk(body, Pointer(path))
    IN  /\ w.st # "malformed"
        /\ ~(kind = "replace" /\ Reported(w) = FailedKeyError)
        /\ ~(kind = "add" /\ Reported(w) # FailedKeyError)

\* C17: whether the PATCH is issued after the gate is decided by the kind,
\* the path and the GET body, whatever the status code of the GET response.
C17_GetStatusIgnored ==
    (getResultValue.called /\ op \in Kinds) =>
        ((pc = "patch" \/ PatchIssued) <=> GateProceeds(op, getResponse.body, params.path))

C17_Witness ==
    /\ PatchIssued
    /\ op = "replace"
    /\ getResponse.called
    /\ getResponse.status_code = 401
    /\ PriorValue.st = "found"

====
